---------------------------- MODULE Spec2Model ----------------------------
(***************************************************************************)
(* CloserCore: the battle-card pipeline (bt_card.py), its text helpers     *)
(* (func.py) and the bulk driver (bulk_run.py).                            *)
(*                                                                         *)
(* Spec      one run of run_battle_card_generator from initial_state       *)
(* SpecNode  the stage functions applied to an arbitrary AgentState        *)
(* SpecBulk  run_bulk_job over a list of companies (SpecBulkFair: the job   *)
(*           keeps executing while it has a next statement)                *)
(* SpecFence the cleaning of an LLM response, applied to any short text    *)
(***************************************************************************)
EXTENDS Integers, Sequences, FiniteSets, TLC

VARIABLES
    pc,             \* graph position: a node name, "END", "raised" or "done"
    phase,          \* "run": the node at pc is to be called; "merge": its update is to be merged
    state,          \* the AgentState held by the graph's channels
    pending,        \* the partial update the node returned, not yet merged
    exc,            \* the exception that escaped the node ("" when none)
    calls,          \* the external calls the current stage made, in order, with their outcomes
    pages,          \* Pricing: what each candidate URL answers when fetched
    executed,       \* the nodes called so far in this run, in order
    files,          \* the two artifacts of writer_node
    result,         \* what run_battle_card_generator returned
    bpc,            \* run_bulk_job: "load", "loop", "save", "done"
    rows,           \* the Company column of the input CSV
    idx,            \* 1-based position of the for loop
    invoked,        \* the companies run_battle_card_generator was called with, in order
    outcomes,       \* per processed row: what the call did ("state", "None", "raise"),
                    \* the pricing_info it returned, whether the report file was written
    summary_results,
    failed_companies,
    reports,        \* the report files written into the output folder
    final_csv,      \* final_delivery.csv
    response,       \* the cleaning on its own: the content of an LLM response
    stripped        \* what the cleaning gave, applied once, then to its own result

pipeVars == <<pc, phase, state, pending, exc, calls, pages, executed, files, result>>
bulkVars == <<bpc, rows, idx, invoked, outcomes, summary_results, failed_companies, reports,
              final_csv>>
textVars == <<response, stripped>>
vars == <<pc, phase, state, pending, exc, calls, pages, executed, files, result,
          bpc, rows, idx, invoked, outcomes, summary_results, failed_companies, reports,
          final_csv, response, stripped>>

---------------------------------------------------------------------------
(* Python values as they come out of json.loads: tagged tuples.            *)

PyNone == <<"None">>
PyStr(s) == <<"str", s>>
PyInt(n) == <<"int", n>>
PyBool(b) == <<"bool", b>>
PyList(xs) == <<"list", xs>>
PyDict(f) == <<"dict", f>>

IsStr(v) == v[1] = "str"
IsList(v) == v[1] = "list"
IsDict(v) == v[1] = "dict"

\* bool(v)
Truthy(v) ==
    CASE v[1] = "None" -> FALSE
      [] v[1] = "str"  -> v[2] # ""
      [] v[1] = "int"  -> v[2] # 0
      [] v[1] = "bool" -> v[2]
      [] v[1] = "list" -> Len(v[2]) > 0
      [] v[1] = "dict" -> DOMAIN v[2] # {}

\* d.get(key, default) on a dict
DictGet(d, key, default) == IF key \in DOMAIN d[2] THEN d[2][key] ELSE default

---------------------------------------------------------------------------
(* Text as a sequence of tokens: the pieces that the cleaning code and     *)
(* json.loads tell apart.  Val(v) is a JSON text that parses to v.         *)

\* three backquotes
TICKS == <<"chr", "fence">>
JSONTAG == <<"chr", "json">>
SP == <<"chr", " ">>
NL == <<"chr", "\n">>
PROSE == <<"chr", "Here is the JSON:">>
Val(v) == <<"val", v>>

IsSpace(t) == t = SP \/ t = NL

\* str.lstrip(), str.rstrip(), str.strip()
RECURSIVE py_lstrip(_)
py_lstrip(s) == IF Len(s) > 0 /\ IsSpace(s[1]) THEN py_lstrip(Tail(s)) ELSE s

RECURSIVE py_rstrip(_)
py_rstrip(s) ==
    IF Len(s) > 0 /\ IsSpace(s[Len(s)]) THEN py_rstrip(SubSeq(s, 1, Len(s) - 1)) ELSE s

py_strip(s) == py_rstrip(py_lstrip(s))

\* str.startswith(tok)
startswith(s, tok) == Len(s) > 0 /\ s[1] = tok

\* str.split("\n"): always at least one (possibly empty) line
RECURSIVE py_split(_, _, _)
py_split(s, cur, acc) ==
    IF s = <<>> THEN Append(acc, cur)
    ELSE IF s[1] = NL THEN py_split(Tail(s), <<>>, Append(acc, cur))
    ELSE py_split(Tail(s), Append(cur, s[1]), acc)

split_lines(s) == py_split(s, <<>>, <<>>)

\* "\n".join(lines)
RECURSIVE join_lines(_)
join_lines(lines) ==
    IF lines = <<>> THEN <<>>
    ELSE IF Len(lines) = 1 THEN lines[1]
    ELSE lines[1] \o <<NL>> \o join_lines(Tail(lines))

\* A cleaning that drops a leading "json" tag from any text, fenced or not
strip_fence_untagged(raw) ==
    LET content == py_strip(raw)
        inner == IF startswith(content, TICKS) /\ Len(split_lines(content)) > 2
                 THEN join_lines(SubSeq(split_lines(content), 2, Len(split_lines(content)) - 1))
                 ELSE content
    IN  IF startswith(inner, JSONTAG) THEN py_strip(Tail(inner)) ELSE inner

\* The "Clean markdown code blocks" block, applied to response.content.strip()
strip_fence(raw) ==
    LET content == py_strip(raw) IN
    IF startswith(content, TICKS)
    THEN LET lines == split_lines(content)
             inner == IF Len(lines) > 2
                      THEN join_lines(SubSeq(lines, 2, Len(lines) - 1))
                      ELSE content
         IN  IF startswith(inner, JSONTAG) THEN py_strip(Tail(inner)) ELSE inner
    ELSE content

\* json.loads: surrounding whitespace is accepted, anything else around the value is not
json_loads(content) ==
    LET c == py_strip(content) IN
    IF Len(c) = 1 /\ c[1][1] = "val"
    THEN [ok |-> TRUE, value |-> c[1][2]]
    ELSE [ok |-> FALSE, value |-> PyNone]

\* The shapes an LLM answer takes around its payload
Wrap(form, v) ==
    CASE form = "bare"   -> <<Val(v)>>
      [] form = "fenced" -> <<TICKS, JSONTAG, NL, Val(v), NL, TICKS>>
      [] form = "padded" -> <<NL, TICKS, NL, Val(v), NL, TICKS, SP>>
      [] form = "prose"  -> <<PROSE, NL, Val(v)>>
      [] form = "inline" -> <<TICKS, Val(v), TICKS>>

Forms == {"bare", "fenced", "padded", "prose", "inline"}

---------------------------------------------------------------------------
(* func.py                                                                 *)

\* A fetched text: whether it starts with "Error", and its length.
Text(err, len) == [kind |-> "str", err |-> err, len |-> len]
NoneText == [kind |-> "None", err |-> FALSE, len |-> 0]

\* bool(text)
TextTruthy(t) == t.kind = "str" /\ t.len > 0

SliceFrom == 2000
SliceTo == 7000
MinContentLen == 100

\* What session.get does: a response, a requests exception, or a failure
\* outside scrape_website's try block.
Resp(status, cleaned) == [kind |-> "resp", status |-> status, n |-> cleaned]
ConnErr(reason) == [kind |-> "exc", status |-> 0, n |-> reason]
Crash == [kind |-> "crash", status |-> 0, n |-> 0]

\* len(clean_text[2000:7000]) for a clean_text of n characters
SliceLen(n) ==
    LET hi == IF n < SliceTo THEN n ELSE SliceTo
    IN  IF hi > SliceFrom THEN hi - SliceFrom ELSE 0

\* scrape_website(url) when session.get behaves as http
scrape_website(url, http) ==
    CASE http.kind = "resp" /\ http.status = 200 -> Text(FALSE, SliceLen(http.n))
      [] http.kind = "resp" /\ http.status # 200 ->
            Text(TRUE, Len("Error: Status code 404"))
      [] http.kind = "exc" ->
            Text(TRUE, Len("Error: Could not scrape ") + Len(url) + Len(". Reason: ") + http.n)

\* A retrieval that rejects only the empty text
retriever_text_unchecked(text, embed_ok) ==
    IF ~embed_ok THEN "raise"
    ELSE IF ~TextTruthy(text) THEN "none"
    ELSE "ok"

\* retriever_text(text): "ok", "none" for (None, None), "raise" when the
\* embeddings model cannot be constructed
retriever_text(text, embed_ok) ==
    IF ~embed_ok THEN "raise"
    ELSE IF ~TextTruthy(text) \/ text.err THEN "none"
    ELSE "ok"

---------------------------------------------------------------------------
(* bt_card.py: the shared state and what the stages see of the outside     *)

Keys == {"messages", "company_name", "home_url", "description", "competitors",
         "pricing_info", "news_headlines", "loop_count", "final_report"}

\* initial_state of run_battle_card_generator; "" is the empty sequence of text pieces
initial_state(company_name) ==
    [messages       |-> <<>>,
     company_name   |-> company_name,
     home_url       |-> PyStr(""),
     description    |-> PyStr(""),
     competitors    |-> PyList(<<>>),
     pricing_info   |-> <<>>,
     news_headlines |-> PyList(<<>>),
     loop_count     |-> 0,
     final_report   |-> <<>>]

\* One external call of a stage, with what it answered.
Call(op, cand, text, res) == [op |-> op, cand |-> cand, text |-> text, res |-> res]

\* What a node did: the update it returned, the calls it made, the exception that escaped.
Returned(update, made) == [update |-> update, calls |-> made, exc |-> ""]
Raised(name, made) == [update |-> <<>>, calls |-> made, exc |-> name]

\* model.invoke(prompt): raises, or answers with content
LlmRaise == [raise |-> TRUE, content |-> <<>>]
LlmSays(content) == [raise |-> FALSE, content |-> content]

HomeUrl == "https://acme.test"

---------------------------------------------------------------------------
(* research_node                                                           *)

\* lines 73-75: the three dat_js.get calls (dat_js is a dict here)
research_extract(dat_js) ==
    [home_url    |-> DictGet(dat_js, "website_url", PyStr("Not found")),
     description |-> DictGet(dat_js, "description", PyStr("Not available")),
     competitors |-> DictGet(dat_js, "competitors", PyList(<<>>))]

\* Defaults equal to the values of initial_state
research_defaults_blank ==
    [home_url    |-> PyStr(""),
     description |-> PyStr(""),
     competitors |-> PyList(<<>>)]

\* lines 42-44: the values the three variables hold before the try block
research_defaults ==
    [home_url    |-> PyStr("Not found"),
     description |-> PyStr("Not available"),
     competitors |-> PyList(<<>>)]

research_node(st, env) ==
    LET count  == st.loop_count
        parsed == json_loads(strip_fence(env.llm.content))
        made   == IF env.search = "raise"
                  THEN <<Call("search", 0, NoneText, "raise")>>
                  ELSE IF env.llm.raise
                  THEN <<Call("search", 0, NoneText, "ok"), Call("llm", 0, NoneText, "raise")>>
                  ELSE <<Call("search", 0, NoneText, "ok"), Call("llm", 0, NoneText, "ok"),
                         Call("json", 0, NoneText, IF parsed.ok THEN "ok" ELSE "raise")>>
        got    == IF env.search = "raise" \/ env.llm.raise THEN research_defaults
                  ELSE IF ~parsed.ok THEN research_defaults        \* json.JSONDecodeError
                  ELSE IF ~IsDict(parsed.value) THEN research_defaults  \* AttributeError on .get
                  ELSE research_extract(parsed.value)
    IN  Returned([home_url    |-> got.home_url,
                  description |-> got.description,
                  competitors |-> got.competitors,
                  loop_count  |-> count + 1], made)

ResearchPayloads ==
    { PyDict([website_url |-> PyStr(HomeUrl),
              description |-> PyStr("Acme makes anvils"),
              competitors |-> PyList(<<PyStr("Globex"), PyStr("Initech")>>)]),
      PyDict([website_url |-> PyStr(HomeUrl),
              description |-> PyStr("Acme makes anvils"),
              competitors |-> PyList(<<PyInt(7)>>)]),
      PyDict([website_url |-> PyNone,
              description |-> PyStr("Acme makes anvils"),
              competitors |-> PyList(<<>>)]),
      PyDict([description |-> PyStr("Acme makes anvils")]),
      PyDict([website_url |-> PyStr(""),
              description |-> PyNone,
              competitors |-> PyList(<<PyStr("Globex")>>)]),
      PyDict([website_url |-> PyInt(42),
              description |-> PyStr("Acme makes anvils"),
              competitors |-> PyList(<<>>)]),
      PyList(<<PyStr(HomeUrl)>>) }

ResearchEnvs ==
    { [search |-> "raise", llm |-> LlmRaise], [search |-> "ok", llm |-> LlmRaise] }
    \cup { [search |-> "ok", llm |-> LlmSays(Wrap(f, v))] : f \in Forms, v \in ResearchPayloads }

---------------------------------------------------------------------------
(* pricing_node and news_node                                              *)

\* The guard without its "not home_url"
ShortCircuitsOnSentinel(home_url) == home_url = PyStr("Not found")

\* "not home_url or home_url == 'Not found'"
ShortCircuits(home_url) == ~Truthy(home_url) \/ home_url = PyStr("Not found")

\* s.rstrip('/') on the strings home_url takes here
rstrip_slash(s) ==
    CASE s = "https://acme.test/" -> "https://acme.test"
      [] s = "/" -> ""
      [] OTHER -> s

\* urljoin(home_url.rstrip('/') + '/', suffix)
candidate_url(home, suffix) == rstrip_slash(home) \o "/" \o suffix

pricing_urls(home) == << candidate_url(home, "pricing"),
                         candidate_url(home, "plans"),
                         candidate_url(home, "price") >>

news_urls(home) == << candidate_url(home, "blog"),
                      candidate_url(home, "news"),
                      candidate_url(home, "press"),
                      candidate_url(home, "updates") >>

\* "text and len(text) > 100"
Meaningful(text) == TextTruthy(text) /\ text.len > MinContentLen

\* The for loop of pricing_node from candidate i on; text is what the
\* earlier iterations left in the variable.
RECURSIVE pricing_probe(_, _, _, _, _)
pricing_probe(urls, pgs, i, text, made) ==
    IF i > Len(urls) THEN [text |-> text, successful_url |-> 0, calls |-> made]
    ELSE IF pgs[i].kind = "crash"
    THEN pricing_probe(urls, pgs, i + 1, text,
                       Append(made, Call("fetch", i, NoneText, "raise")))
    ELSE LET t == scrape_website(urls[i], pgs[i]) IN
         IF Meaningful(t)
         THEN [text |-> t, successful_url |-> i,
               calls |-> Append(made, Call("fetch", i, t, "ok"))]
         ELSE pricing_probe(urls, pgs, i + 1, t,
                            Append(made, Call("fetch", i, t, "ok")))

\* The try block shared by pricing_node and news_node up to json.loads:
\* retriever_text, get_price_chunks, model.invoke, the cleaning, json.loads.
\* parsed is FALSE when any of them failed.
extract(text, env) ==
    LET r == retriever_text(text, env.embed_ok) IN
    IF r # "ok"
    THEN [parsed |-> FALSE, why |-> r, value |-> PyNone,
          calls |-> <<Call("retrieve", 0, text, r)>>]
    ELSE IF env.topk = "raise"
    THEN [parsed |-> FALSE, why |-> "raise", value |-> PyNone,
          calls |-> <<Call("retrieve", 0, text, "ok"), Call("topk", 0, NoneText, "raise")>>]
    ELSE IF env.llm.raise
    THEN [parsed |-> FALSE, why |-> "raise", value |-> PyNone,
          calls |-> <<Call("retrieve", 0, text, "ok"), Call("topk", 0, NoneText, "ok"),
                      Call("llm", 0, text, "raise")>>]
    ELSE LET p == json_loads(strip_fence(env.llm.content)) IN
         [parsed |-> p.ok, why |-> IF p.ok THEN "ok" ELSE "json", value |-> p.value,
          calls |-> <<Call("retrieve", 0, text, "ok"), Call("topk", 0, NoneText, "ok"),
                      Call("llm", 0, text, "ok"),
                      Call("json", 0, NoneText, IF p.ok THEN "ok" ELSE "raise")>>]

\* An append that adds the record twice
append_record_twice(pricing_info, res_json) == Append(Append(pricing_info, res_json), res_json)

\* pricing_info.append(res_json)
append_record(pricing_info, res_json) == Append(pricing_info, res_json)

pricing_node(st, env) ==
    LET pricing_info == st.pricing_info
        home_url     == st.home_url
    IN  IF ShortCircuits(home_url) THEN Returned([pricing_info |-> pricing_info], <<>>)
        ELSE IF ~IsStr(home_url) THEN Raised("AttributeError", <<>>)   \* home_url.rstrip
        ELSE LET probe == pricing_probe(pricing_urls(home_url[2]), env.pages, 1, NoneText, <<>>) IN
             IF ~TextTruthy(probe.text)
             THEN Returned([pricing_info |-> pricing_info], probe.calls)
             ELSE LET x == extract(probe.text, env) IN
                  IF x.parsed
                  THEN Returned([pricing_info |-> append_record(pricing_info, x.value)],
                                probe.calls \o x.calls)
                  ELSE Returned([pricing_info |-> pricing_info], probe.calls \o x.calls)

\* A gate that lets every answered status check through
status_passes_any(status_code) == TRUE

\* "res.status_code == 200"
status_passes(status_code) == status_code = "200"

\* The for loop of news_node from candidate i on.
RECURSIVE news_probe(_, _, _, _, _)
news_probe(urls, site, i, text, made) ==
    IF i > Len(urls) THEN [text |-> text, successful_url |-> 0, calls |-> made]
    ELSE IF site[i].status = "exc"
    THEN news_probe(urls, site, i + 1, text,
                    Append(made, Call("status", i, NoneText, "raise")))
    ELSE IF ~status_passes(site[i].status)
    THEN news_probe(urls, site, i + 1, text,
                    Append(made, Call("status", i, NoneText, site[i].status)))
    ELSE IF site[i].http.kind = "crash"
    THEN news_probe(urls, site, i + 1, text,
                    made \o <<Call("status", i, NoneText, site[i].status),
                              Call("fetch", i, NoneText, "raise")>>)
    ELSE LET t == scrape_website(urls[i], site[i].http)
             now == made \o <<Call("status", i, NoneText, site[i].status),
                              Call("fetch", i, t, "ok")>>
         IN  IF Meaningful(t)
             THEN [text |-> t, successful_url |-> i, calls |-> now]
             ELSE news_probe(urls, site, i + 1, t, now)

\* len(x) is defined
Sized(v) == v[1] \in {"str", "list", "dict"}

\* A short-circuit that hands back the headlines it was given
news_skip_keeps(st) == Returned([news_headlines |-> st.news_headlines], <<>>)

\* A short-circuit that counts itself in loop_count
news_skip_counts(st) ==
    Returned([news_headlines |-> PyList(<<>>), loop_count |-> st.loop_count + 1], <<>>)

\* lines 196-198: the short-circuit of news_node
news_skip(st) == Returned([news_headlines |-> PyList(<<>>)], <<>>)

news_node(st, env) ==
    LET home_url == st.home_url
    IN  IF ShortCircuits(home_url) THEN news_skip(st)
        ELSE IF ~IsStr(home_url) THEN Raised("AttributeError", <<>>)   \* home_url.rstrip
        ELSE LET probe == news_probe(news_urls(home_url[2]), env.site, 1, NoneText, <<>>) IN
             IF ~TextTruthy(probe.text)
             THEN Returned([news_headlines |-> PyList(<<>>)], probe.calls)
             ELSE LET x == extract(probe.text, env)
                      made == probe.calls \o x.calls
                  IN  IF ~x.parsed THEN Returned([news_headlines |-> PyList(<<>>)], made)
                      ELSE IF ~IsDict(x.value)                    \* .get on a non-dict
                      THEN Returned([news_headlines |-> PyList(<<>>)], made)
                      ELSE LET hs == DictGet(x.value, "headlines", PyList(<<>>)) IN
                           IF ~Sized(hs)                          \* len() in the print
                           THEN Returned([news_headlines |-> PyList(<<>>)], made)
                           ELSE Returned([news_headlines |-> hs], made)

---------------------------------------------------------------------------
(* What the web, the embeddings and the LLM may answer to these stages     *)

FetchOutcomes == { Resp(200, 1500), Resp(200, 2100), Resp(200, 2101),
                   Resp(404, 0), ConnErr(80), Crash }

NumPricingUrls == 3
NumNewsUrls == 4

PricingPages == [1..NumPricingUrls -> FetchOutcomes]
NoPages == <<>>

NewsOutcomes ==
    { [status |-> "exc", http |-> Crash], [status |-> "404", http |-> Crash] }
    \cup { [status |-> "200", http |-> h] : h \in FetchOutcomes \ {Crash} }

NewsSites == [1..NumNewsUrls -> NewsOutcomes]

ExtractForms == {"bare", "fenced", "prose"}

ExtractEnvs(payloads) ==
    { [embed_ok |-> FALSE, topk |-> "ok", llm |-> LlmRaise],
      [embed_ok |-> TRUE, topk |-> "raise", llm |-> LlmRaise],
      [embed_ok |-> TRUE, topk |-> "ok", llm |-> LlmRaise] }
    \cup { [embed_ok |-> TRUE, topk |-> "ok", llm |-> LlmSays(Wrap(f, v))] :
             f \in ExtractForms, v \in payloads }

GoodPricing ==
    PyDict([free_tier |-> PyBool(TRUE),
            starter_plan |-> PyDict([name |-> PyStr("Pro"), price |-> PyStr("$9/month")]),
            enterprise_plan |-> PyBool(TRUE)])

PricingPayloads ==
    { GoodPricing,
      PyStr("free"),
      PyDict([free_tier |-> PyBool(FALSE), starter_plan |-> PyStr("Pro")]) }

GoodHeadlines ==
    PyList(<<PyDict([title |-> PyStr("Acme ships rocket skates"), position |-> PyInt(1)])>>)

NewsPayloads ==
    { PyDict([headlines |-> GoodHeadlines]),
      PyDict([headlines |-> PyList(<<PyStr("Acme ships rocket skates")>>)]),
      PyDict([articles |-> PyList(<<>>)]),
      PyList(<<PyStr("Acme ships rocket skates")>>) }

PricingEnvs ==
    { [pages |-> pg, embed_ok |-> x.embed_ok, topk |-> x.topk, llm |-> x.llm] :
        pg \in PricingPages, x \in ExtractEnvs(PricingPayloads) }

NewsEnvs ==
    { [site |-> s, embed_ok |-> x.embed_ok, topk |-> x.topk, llm |-> x.llm] :
        s \in NewsSites, x \in ExtractEnvs(NewsPayloads) }

---------------------------------------------------------------------------
(* writer_node                                                             *)

Absent == <<"absent">>
Partial == <<"partial">>
File(content) == <<"file", content>>
NoFiles == [md |-> Absent, json |-> Absent]

\* ", ".join(competitors) if competitors else "Unknown" raises TypeError
join_raises(competitors) ==
    /\ Truthy(competitors)
    /\ CASE IsStr(competitors)  -> FALSE
         [] IsDict(competitors) -> FALSE
         [] IsList(competitors) ->
                \E i \in 1..Len(competitors[2]) : ~IsStr(competitors[2][i])
         [] OTHER -> TRUE

\* lines 328-339: pricing_info[0].get(...), starter_plan.get(...) raise AttributeError
pricing_text_raises(pricing_info) ==
    /\ Len(pricing_info) > 0
    /\ LET pricing_data == pricing_info[1] IN
       IF ~IsDict(pricing_data) THEN TRUE
       ELSE LET starter_plan == DictGet(pricing_data, "starter_plan", PyDict(<<>>))
            IN  Truthy(starter_plan) /\ ~IsDict(starter_plan)

\* lines 350-352: len(news_headlines), headline.get(...) raise
news_text_raises(news_headlines) ==
    /\ Truthy(news_headlines)
    /\ CASE ~Sized(news_headlines) -> TRUE
         [] IsList(news_headlines) ->
                \E i \in 1..Len(news_headlines[2]) : ~IsDict(news_headlines[2][i])
         [] OTHER -> TRUE

\* A message without the banner line
error_message_plain(e) == <<"Error: ", e>>

\* line 444: the banner, a blank line, "Error: " and str(e)
error_message(e) == <<"# Error Generating Battle Card", "\n\n", "Error: ", e>>

\* A sidecar whose website is the default of state.get, not the state's home_url
raw_data_default_website(st) ==
    [company_name   |-> st.company_name,
     website        |-> PyStr("Not found"),
     description    |-> st.description,
     competitors    |-> st.competitors,
     pricing_info   |-> st.pricing_info,
     news_headlines |-> st.news_headlines]

raw_data(st) ==
    [company_name   |-> st.company_name,
     website        |-> st.home_url,
     description    |-> st.description,
     competitors    |-> st.competitors,
     pricing_info   |-> st.pricing_info,
     news_headlines |-> st.news_headlines]

\* json.dump(raw_data, f, indent=2, ensure_ascii=False): the text of the JSON
\* object; the str company_name becomes a JSON string, the list pricing_info
\* a JSON array.
json_dump(data) ==
    <<Val(PyDict([company_name   |-> PyStr(data.company_name),
                  website        |-> data.website,
                  description    |-> data.description,
                  competitors    |-> data.competitors,
                  pricing_info   |-> PyList(data.pricing_info),
                  news_headlines |-> data.news_headlines]))>>

\* What the node did, with the files it left behind.
Wrote(r, fs) == [update |-> r.update, calls |-> r.calls, exc |-> r.exc, files |-> fs]

\* writer_node without its increment of loop_count
writer_update_keeps_count(st, report) ==
    [final_report |-> report, loop_count |-> st.loop_count]

writer_update(st, report) ==
    [final_report |-> report, loop_count |-> st.loop_count + 1]

writer_node(st, env, fs) ==
    IF join_raises(st.competitors) THEN Wrote(Raised("TypeError", <<>>), fs)
    ELSE IF pricing_text_raises(st.pricing_info) THEN Wrote(Raised("AttributeError", <<>>), fs)
    ELSE IF news_text_raises(st.news_headlines) THEN Wrote(Raised("AttributeError", <<>>), fs)
    ELSE IF env.llm.raise
    THEN Wrote(Returned(writer_update(st, error_message("llm")),
                        <<Call("llm", 0, NoneText, "raise")>>), fs)
    ELSE LET battle_card == env.llm.content
             llm == Call("llm", 0, NoneText, "ok")
         IN  IF env.md = "open_fails"
             THEN Wrote(Returned(writer_update(st, error_message("open")),
                                 <<llm, Call("write_md", 0, NoneText, "raise")>>), fs)
             ELSE IF env.md = "write_fails"
             THEN Wrote(Returned(writer_update(st, error_message("write")),
                                 <<llm, Call("write_md", 0, NoneText, "raise")>>),
                        [fs EXCEPT !.md = Partial])
             ELSE IF env.js = "open_fails"
             THEN Wrote(Returned(writer_update(st, error_message("open")),
                                 <<llm, Call("write_md", 0, NoneText, "ok"),
                                   Call("write_json", 0, NoneText, "raise")>>),
                        [fs EXCEPT !.md = File(battle_card)])
             ELSE IF env.js = "write_fails"
             THEN Wrote(Returned(writer_update(st, error_message("write")),
                                 <<llm, Call("write_md", 0, NoneText, "ok"),
                                   Call("write_json", 0, NoneText, "raise")>>),
                        [fs EXCEPT !.md = File(battle_card), !.json = Partial])
             ELSE Wrote(Returned(writer_update(st, battle_card),
                                 <<llm, Call("write_md", 0, NoneText, "ok"),
                                   Call("write_json", 0, NoneText, "ok")>>),
                        [fs EXCEPT !.md = File(battle_card),
                                   !.json = File(json_dump(raw_data(st)))])

WriterContents == { <<>>, <<"# Battle Card", "\n\n", "## 1. What They Do">> }

WriterEnvs ==
    { [llm |-> LlmRaise, md |-> "ok", js |-> "ok"] }
    \cup { [llm |-> LlmSays(c), md |-> m, js |-> "ok"] :
             c \in WriterContents, m \in {"open_fails", "write_fails"} }
    \cup { [llm |-> LlmSays(c), md |-> "ok", js |-> j] :
             c \in WriterContents, j \in {"ok", "open_fails", "write_fails"} }

---------------------------------------------------------------------------
(* The graph and run_battle_card_generator                                 *)

\* builder.add_edge
next_node(n) ==
    CASE n = "detective" -> "pricing"
      [] n = "pricing"   -> "news"
      [] n = "news"      -> "editor"
      [] n = "editor"    -> "END"

\* Channels that fall back to their initial value when the update has no key for them
merge_update_resets(st, upd) ==
    [k \in DOMAIN st |-> IF k \in DOMAIN upd THEN upd[k]
                         ELSE initial_state(st.company_name)[k]]

\* The channels take the update: a key of the update replaces the value held.
merge_update(st, upd) ==
    [k \in DOMAIN st |-> IF k \in DOMAIN upd THEN upd[k] ELSE st[k]]

\* The graph calls node n, which answers r.
Called(n, r) ==
    /\ executed' = Append(executed, n)
    /\ calls' = r.calls
    /\ exc' = r.exc
    /\ pending' = r.update
    /\ IF r.exc = "" THEN pc' = pc /\ phase' = "merge"
                     ELSE pc' = "raised" /\ phase' = "run"
    /\ UNCHANGED <<state, result>>

detective ==
    /\ pc = "detective" /\ phase = "run"
    /\ \E env \in ResearchEnvs : Called("detective", research_node(state, env))
    /\ pages' = NoPages
    /\ UNCHANGED files
    /\ UNCHANGED <<bulkVars, textVars>>

pricing ==
    /\ pc = "pricing" /\ phase = "run"
    /\ \E env \in PricingEnvs :
         /\ Called("pricing", pricing_node(state, env))
         /\ pages' = IF ShortCircuits(state.home_url) \/ ~IsStr(state.home_url)
                     THEN NoPages ELSE env.pages
    /\ UNCHANGED files
    /\ UNCHANGED <<bulkVars, textVars>>

news ==
    /\ pc = "news" /\ phase = "run"
    /\ \E env \in NewsEnvs : Called("news", news_node(state, env))
    /\ pages' = NoPages
    /\ UNCHANGED files
    /\ UNCHANGED <<bulkVars, textVars>>

editor ==
    /\ pc = "editor" /\ phase = "run"
    /\ \E env \in WriterEnvs :
         LET w == writer_node(state, env, files) IN
         /\ Called("editor", w)
         /\ files' = w.files
    /\ pages' = NoPages
    /\ UNCHANGED <<bulkVars, textVars>>

\* The node's update is written to the channels; the next node becomes current.
merge ==
    /\ phase = "merge"
    /\ state' = merge_update(state, pending)
    /\ pending' = <<>>
    /\ pc' = next_node(pc)
    /\ phase' = "run"
    /\ calls' = <<>>
    /\ pages' = NoPages
    /\ UNCHANGED <<exc, executed, files, result>>
    /\ UNCHANGED <<bulkVars, textVars>>

\* graph.invoke returned: "return result"
run_return ==
    /\ pc = "END"
    /\ result' = <<"state", state>>
    /\ pc' = "done"
    /\ UNCHANGED <<phase, state, pending, exc, calls, pages, executed, files>>
    /\ UNCHANGED <<bulkVars, textVars>>

\* graph.invoke raised: "except Exception ... return None"
run_except ==
    /\ pc = "raised"
    /\ result' = PyNone
    /\ pc' = "done"
    /\ UNCHANGED <<phase, state, pending, exc, calls, pages, executed, files>>
    /\ UNCHANGED <<bulkVars, textVars>>

Companies == {"Acme"}

BulkIdle ==
    /\ bpc = "idle" /\ rows = <<>> /\ idx = 0 /\ invoked = <<>> /\ outcomes = <<>>
    /\ summary_results = <<>> /\ failed_companies = <<>> /\ reports = {}
    /\ final_csv = Absent

TextIdle == response = <<>> /\ stripped = <<>>

Init ==
    /\ pc = "detective" /\ phase = "run"
    /\ \E c \in Companies : state = initial_state(c)
    /\ pending = <<>> /\ exc = "" /\ calls = <<>> /\ pages = NoPages
    /\ executed = <<>> /\ files = NoFiles /\ result = <<"pending">>
    /\ BulkIdle
    /\ TextIdle

Next == detective \/ pricing \/ news \/ editor \/ merge \/ run_return \/ run_except

Spec == Init /\ [][Next]_vars

---------------------------------------------------------------------------
(* The stage functions called on their own, on any AgentState              *)

MaxLoopCount == 1

NodeInputs ==
    { [initial_state("Acme") EXCEPT !.home_url = h, !.loop_count = k,
                                    !.pricing_info = d[1], !.news_headlines = d[2]] :
        h \in {PyStr(""), PyStr("Not found"), PyNone, PyStr(HomeUrl)},
        k \in 0..MaxLoopCount,
        d \in { <<<<>>, PyList(<<>>)>>, <<<<GoodPricing>>, GoodHeadlines>> } }

InitNode ==
    /\ pc \in {"detective", "pricing", "news", "editor"} /\ phase = "run"
    /\ state \in NodeInputs
    /\ pending = <<>> /\ exc = "" /\ calls = <<>> /\ pages = NoPages
    /\ executed = <<>> /\ files = NoFiles /\ result = <<"pending">>
    /\ BulkIdle
    /\ TextIdle

\* The caller of the node merges the update into its copy of the state.
node_returned ==
    /\ phase = "merge"
    /\ state' = merge_update(state, pending)
    /\ pending' = <<>>
    /\ pc' = "done"
    /\ phase' = "run"
    /\ UNCHANGED <<exc, calls, pages, executed, files, result>>
    /\ UNCHANGED <<bulkVars, textVars>>

NextNode == detective \/ pricing \/ news \/ editor \/ node_returned

SpecNode == InitNode /\ [][NextNode]_vars

---------------------------------------------------------------------------
(* bulk_run.py: run_bulk_job                                               *)

MaxRows == 3

BulkCompanies == {"Slack", "odoo"}

RowLists == UNION { [1..n -> BulkCompanies] : n \in 0..MaxRows }

\* What run_battle_card_generator(company) gives back: the final state of a
\* run, None, or an exception from outside its try block.
RunOutcomes(company) ==
    { [kind |-> "raise", st |-> initial_state(company)],
      [kind |-> "None", st |-> initial_state(company)] }
    \cup { [kind |-> "state",
            st |-> [initial_state(company) EXCEPT
                      !.home_url = h, !.description = PyStr("Makes things"),
                      !.pricing_info = p, !.loop_count = 2,
                      !.final_report = <<"# Battle Card">>]] :
             h \in {PyStr(HomeUrl), PyStr("Not found")},
             p \in { <<>>, <<GoodPricing>>, <<PyStr("free")>>,
                     <<PyDict([free_tier |-> PyBool(FALSE), starter_plan |-> PyStr("Pro")])>> } }

\* lines 59-60: result.get("pricing_info", [{}])[0] and the starter price.
\* ok is FALSE where the code raises (IndexError, AttributeError).
starter_price(st) ==
    IF Len(st.pricing_info) = 0 THEN [ok |-> FALSE, price |-> PyNone]
    ELSE LET pricing_data == st.pricing_info[1] IN
         IF ~Truthy(pricing_data) THEN [ok |-> TRUE, price |-> PyStr("Unknown")]
         ELSE IF ~IsDict(pricing_data) THEN [ok |-> FALSE, price |-> PyNone]
         ELSE LET starter_plan == DictGet(pricing_data, "starter_plan", PyDict(<<>>)) IN
              IF ~IsDict(starter_plan) THEN [ok |-> FALSE, price |-> PyNone]
              ELSE [ok |-> TRUE, price |-> DictGet(starter_plan, "price", PyStr("Unknown"))]

report_filename(company) == "reports/" \o company \o "_Battle_Card.md"

\* The body of the for loop for one company: what it adds to the two lists
\* and whether it left a report file.
bulk_row(company, out, write_ok) ==
    IF out.kind = "raise"
    THEN [summary |-> <<>>, failed |-> <<company>>, report |-> {}]
    ELSE IF out.kind = "None"
    THEN [summary |-> <<>>, failed |-> <<company>>, report |-> {}]
    ELSE IF ~write_ok
    THEN [summary |-> <<>>, failed |-> <<company>>, report |-> {}]
    ELSE LET sp == starter_price(out.st) IN
         IF ~sp.ok
         THEN [summary |-> <<>>, failed |-> <<company>>,
               report |-> {report_filename(company)}]
         ELSE [summary |-> << [Company       |-> company,
                               Website       |-> out.st.home_url,
                               Description   |-> out.st.description,
                               Starter_Price |-> sp.price,
                               Report_File   |-> report_filename(company)] >>,
               failed |-> <<>>,
               report |-> {report_filename(company)}]

\* A loop that stops at the first failed company
next_index_break(i, n, failed) == IF failed THEN n + 1 ELSE i + 1

\* The for loop goes on to the next row, whatever the row did.
next_index(i, n, failed) == i + 1

InitBulk ==
    /\ pc = "idle" /\ phase = "run" /\ state = initial_state("Acme")
    /\ pending = <<>> /\ exc = "" /\ calls = <<>> /\ pages = NoPages
    /\ executed = <<>> /\ files = NoFiles /\ result = <<"pending">>
    /\ bpc = "load" /\ rows = <<>> /\ idx = 0 /\ invoked = <<>> /\ outcomes = <<>>
    /\ summary_results = <<>> /\ failed_companies = <<>> /\ reports = {}
    /\ final_csv = Absent
    /\ TextIdle

\* pd.read_csv(input_csv) succeeded
bulk_load ==
    /\ bpc = "load"
    /\ \E l \in RowLists : rows' = l
    /\ idx' = 1
    /\ bpc' = "loop"
    /\ UNCHANGED <<invoked, outcomes, summary_results, failed_companies, reports, final_csv>>
    /\ UNCHANGED <<pipeVars, textVars>>

\* FileNotFoundError: the job returns at once
bulk_load_missing ==
    /\ bpc = "load"
    /\ bpc' = "missing"
    /\ UNCHANGED <<rows, idx, invoked, outcomes, summary_results, failed_companies, reports,
                   final_csv>>
    /\ UNCHANGED <<pipeVars, textVars>>

\* One pass of the for loop
bulk_iteration ==
    /\ bpc = "loop" /\ idx <= Len(rows)
    /\ LET company == rows[idx] IN
       \E out \in RunOutcomes(company), write_ok \in BOOLEAN :
         LET r == bulk_row(company, out, write_ok) IN
         /\ invoked' = Append(invoked, company)
         /\ outcomes' = Append(outcomes, [kind    |-> out.kind,
                                           pricing |-> out.st.pricing_info,
                                           wrote   |-> r.report # {}])
         /\ summary_results' = summary_results \o r.summary
         /\ failed_companies' = failed_companies \o r.failed
         /\ reports' = reports \cup r.report
         /\ idx' = next_index(idx, Len(rows), r.failed # <<>>)
    /\ UNCHANGED <<bpc, rows, final_csv>>
    /\ UNCHANGED <<pipeVars, textVars>>

\* After the loop: final_delivery.csv is written when there is a summary
bulk_finish ==
    /\ bpc = "loop" /\ idx > Len(rows)
    /\ final_csv' = IF summary_results # <<>> THEN File(summary_results) ELSE final_csv
    /\ bpc' = "done"
    /\ UNCHANGED <<rows, idx, invoked, outcomes, summary_results, failed_companies, reports>>
    /\ UNCHANGED <<pipeVars, textVars>>

NextBulk == bulk_load \/ bulk_load_missing \/ bulk_iteration \/ bulk_finish

SpecBulk == InitBulk /\ [][NextBulk]_vars

\* The job is a sequential program: as long as it has a next statement, it
\* executes it.
SpecBulkFair == SpecBulk /\ WF_vars(NextBulk)

---------------------------------------------------------------------------
(* The cleaning of an LLM response on its own                              *)

MaxTokens == 6
MaxApplications == 2

TextTokens == {TICKS, JSONTAG, SP, NL, Val(GoodPricing)}

Responses == UNION { [1..n -> TextTokens] : n \in 0..MaxTokens }

PipelineIdle ==
    /\ pc = "idle" /\ phase = "run" /\ state = initial_state("Acme")
    /\ pending = <<>> /\ exc = "" /\ calls = <<>> /\ pages = NoPages
    /\ executed = <<>> /\ files = NoFiles /\ result = <<"pending">>

InitFence ==
    /\ PipelineIdle
    /\ BulkIdle
    /\ response \in Responses
    /\ stripped = <<>>

\* The stage cleans the content of the response it got.
clean_response ==
    /\ stripped = <<>>
    /\ stripped' = <<strip_fence(response)>>
    /\ UNCHANGED response
    /\ UNCHANGED <<pipeVars, bulkVars>>

\* The cleaning is applied to what the cleaning gave.
clean_again ==
    /\ Len(stripped) >= 1 /\ Len(stripped) < MaxApplications
    /\ stripped' = Append(stripped, strip_fence(stripped[Len(stripped)]))
    /\ UNCHANGED response
    /\ UNCHANGED <<pipeVars, bulkVars>>

NextFence == clean_response \/ clean_again

SpecFence == InitFence /\ [][NextFence]_vars

---------------------------------------------------------------------------
(* Properties                                                              *)

AllStages == <<"detective", "pricing", "news", "editor">>

\* The run returned a final state after all four stages were called and returned.
FullRun == pc = "done" /\ result[1] = "state" /\ executed = AllStages

ContractKeys(n) ==
    CASE n = "detective" -> {"home_url", "description", "competitors", "loop_count"}
      [] n = "pricing"   -> {"pricing_info"}
      [] n = "news"      -> {"news_headlines"}
      [] n = "editor"    -> {"final_report", "loop_count"}

\* C2: no stage lets an exception escape; each call of a stage returns an
\* update holding all keys of its contract.
C2_NoExceptionEscapes ==
    /\ exc = ""
    /\ phase = "merge" => ContractKeys(pc) \subseteq DOMAIN pending

\* C3, for a run whose four stages all returned: the final state holds a
\* non-empty final_report, whatever failed on the way and whatever the LLM
\* answered.
C3_ReportNeverEmpty == FullRun => result[2].final_report # <<>>

\* The stage at pc has returned and its input home_url is "" or "Not found".
Unresolved(n) ==
    /\ phase = "merge" /\ pc = n
    /\ state.home_url \in {PyStr(""), PyStr("Not found")}

\* C4: with home_url "" or "Not found", Pricing and News return without a
\* single external call (no status check, no fetch, no retrieval, no LLM).
C4_ShortCircuitMakesNoCall ==
    (Unresolved("pricing") \/ Unresolved("news")) => calls = <<>>

C4_Witness ==
    /\ Unresolved("news") /\ state.home_url = PyStr("") /\ calls = <<>>
    /\ executed = <<"detective", "pricing", "news">>

\* C5 (as stated): with home_url "" or "Not found", News returns the
\* news_headlines of its input and Pricing the pricing_info of its input.
C5_ShortCircuitReturnsInput ==
    /\ Unresolved("news") => pending.news_headlines = state.news_headlines
    /\ Unresolved("pricing") => pending.pricing_info = state.pricing_info

\* C5 (amended): with home_url "" or "Not found", News returns the empty
\* list as news_headlines, whatever its input held, and Pricing returns the
\* pricing_info of its input.
C5_ShortCircuitNewsEmpty ==
    /\ Unresolved("news") => pending.news_headlines = PyList(<<>>)
    /\ Unresolved("pricing") => pending.pricing_info = state.pricing_info

C5_Witness ==
    /\ Unresolved("news")
    /\ state.news_headlines = GoodHeadlines
    /\ pending.news_headlines = PyList(<<>>)

\* What fetching pricing candidate i gives in this run
PageText(i) == scrape_website(pricing_urls(state.home_url[2])[i], pages[i])

Fetched(i) == \E j \in 1..Len(calls) : calls[j].op = "fetch" /\ calls[j].cand = i

\* C6, for a candidate 2 whose text is longer than 100 characters: when
\* pricing candidate 1 yields an error (an error marker of any length, or an
\* exception) and candidate 2 yields such a text, the stage extracts from
\* candidate 2's text and never fetches candidate 3.
C6_FirstMatchWins ==
    ( /\ phase = "merge" /\ pc = "pricing" /\ pages # NoPages
      /\ (pages[1].kind = "crash" \/ PageText(1).err)
      /\ pages[2].kind # "crash"
      /\ ~PageText(2).err /\ PageText(2).len > 100 )
    => /\ Fetched(2)
       /\ ~Fetched(3)
       /\ \E j \in 1..Len(calls) : calls[j].op = "retrieve" /\ calls[j].text = PageText(2)

IsPrefix(s, t) == Len(s) <= Len(t) /\ s = SubSeq(t, 1, Len(s))

\* C7: the stages run in the order Research, Pricing, News, Writer, none
\* twice, none before the update of the one before it is merged, and every
\* run executes each of them exactly once.
C7_EachStageExactlyOnce ==
    /\ IsPrefix(executed, AllStages)
    /\ (phase = "run" /\ pc \in {"detective", "pricing", "news", "editor"}) => pending = <<>>
    /\ pc = "done" => executed = AllStages

\* C8: once Research has run, home_url is never null.
C8_HomeUrlNeverNull == pc # "detective" => state.home_url # PyNone

\* The companies of the rows processed so far whose call ended in one of kinds
RECURSIVE rows_with(_, _)
rows_with(kinds, n) ==
    IF n = 0 THEN <<>>
    ELSE rows_with(kinds, n - 1) \o (IF outcomes[n].kind \in kinds THEN <<rows[n]>> ELSE <<>>)

summary_companies == [i \in 1..Len(summary_results) |-> summary_results[i].Company]

\* Every run that returned a final state returned an empty pricing_info or a
\* record of the documented shape, and had its report file written.
PlainBatch ==
    \A i \in 1..Len(outcomes) :
        outcomes[i].kind = "state" =>
            outcomes[i].wrote /\ outcomes[i].pricing \in {<<>>, <<GoodPricing>>}

\* C9, for a batch in which every report file could be written and every
\* pricing record is of the documented shape: the summary holds one row per
\* company whose run returned a final state (also one with an empty
\* pricing_info), and the failed list holds the companies whose run raised
\* or returned no result, and no others.
C9_SummaryAndFailedExact ==
    (bpc = "done" /\ PlainBatch) =>
        /\ summary_companies = rows_with({"state"}, Len(rows))
        /\ failed_companies = rows_with({"raise", "None"}, Len(rows))

\* The calls made so far are the rows before the current one, in input order.
InvokedInOrder ==
    /\ bpc \in {"loop", "done"} =>
         /\ idx <= Len(rows) + 1
         /\ invoked = SubSeq(rows, 1, idx - 1)
    /\ bpc = "done" => invoked = rows

\* C10: the orchestrator is invoked once for every row, in input order,
\* whatever failed on the way, and a job that loaded its input reaches the
\* end of the list.
C10_EveryRowInvokedOnce ==
    /\ []InvokedInOrder
    /\ [](bpc = "loop" => <>(bpc = "done" /\ invoked = rows))

C10_Witness ==
    /\ bpc = "done" /\ Len(rows) >= 2
    /\ outcomes[1].kind \in {"raise", "None"}
    /\ failed_companies # <<>>
    /\ invoked = rows

---------------------------------------------------------------------------
(* C11: what a stage does to the fields it owns                            *)

ReportFields == {"home_url", "description", "competitors", "pricing_info",
                 "news_headlines", "final_report"}

Banner == "# Error Generating Battle Card"

IsBanner(report) == Len(report) > 0 /\ report[1] = Banner

\* The value v of field k is neither the value of initial_state nor a
\* sentinel or error value a stage writes when it fails.
Extracted(k, v) ==
    CASE k = "home_url"       -> v \notin {PyStr(""), PyStr("Not found")}
      [] k = "description"    -> v \notin {PyStr(""), PyStr("Not available")}
      [] k = "competitors"    -> v # PyList(<<>>)
      [] k = "pricing_info"   -> v # <<>>
      [] k = "news_headlines" -> v # PyList(<<>>)
      [] k = "final_report"   -> v # <<>> /\ ~IsBanner(v)

\* The fields a stage sets in its update, loop_count aside
OwnedFields(n) == ContractKeys(n) \ {"loop_count"}

\* The stage at pc has returned after one of its steps past the probe failed:
\* a call raised, or retrieval gave (None, None).
StageFailed ==
    /\ phase = "merge"
    /\ \E j \in 1..Len(calls) :
         /\ calls[j].op \notin {"fetch", "status"}
         /\ calls[j].res \in {"raise", "none"}

\* C11 (as stated, its last clause): a stage that fails leaves the fields it
\* owns as it found them.
C11_FailedStageLeavesFields ==
    StageFailed => \A k \in OwnedFields(pc) : pending[k] = state[k]

\* A step of the run keeps every extracted value.
KeepsExtracted ==
    \A k \in ReportFields : Extracted(k, state[k]) => state'[k] = state[k]

\* What a failed stage returns for the fields it owns
FailedStageDefaults ==
    StageFailed =>
        CASE pc = "detective" ->
                 /\ pending.home_url = PyStr("Not found")
                 /\ pending.description = PyStr("Not available")
                 /\ pending.competitors = PyList(<<>>)
          [] pc = "pricing" -> pending.pricing_info = state.pricing_info
          [] pc = "news"    -> pending.news_headlines = PyList(<<>>)
          [] pc = "editor"  -> IsBanner(pending.final_report)

\* C11 (amended): in a run from the initial state, once one of the six fields
\* holds an extracted value every later state holds the same value; a stage
\* that fails returns its defaults for the fields it owns: Research the
\* triple "Not found", "Not available", [], News the empty list, Writer the
\* error banner, and only Pricing the value it found.
C11_ExtractedKeptFailedDefault == [][KeepsExtracted]_vars /\ []FailedStageDefaults

C11_Witness ==
    /\ FullRun
    /\ result[2].home_url = PyStr(HomeUrl)
    /\ result[2].pricing_info = <<GoodPricing>>
    /\ result[2].news_headlines = PyList(<<>>)
    /\ IsBanner(result[2].final_report)

---------------------------------------------------------------------------
(* C12: the cleaning applied twice                                         *)

TickCount(s) == Cardinality({i \in 1..Len(s) : s[i] = TICKS})

\* The layers of fencing of a response: 0 when it holds no fence, 1 when it
\* is wrapped in one pair of fences, 2 for anything else.
Layers(s) ==
    LET c == py_strip(s) IN
    IF TickCount(s) = 0 THEN 0
    ELSE IF TickCount(s) = 2 /\ c[1] = TICKS /\ c[Len(c)] = TICKS THEN 1
    ELSE 2

---------------------------------------------------------------------------
(* C13: the sidecar against the state                                      *)

\* The six fields of st as the re-parsed sidecar d holds them
SidecarMatches(d, st) ==
    /\ d.ok /\ IsDict(d.value)
    /\ DOMAIN d.value[2] = {"company_name", "website", "description", "competitors",
                            "pricing_info", "news_headlines"}
    /\ d.value[2].company_name = PyStr(st.company_name)
    /\ d.value[2].website = st.home_url
    /\ d.value[2].description = st.description
    /\ d.value[2].competitors = st.competitors
    /\ d.value[2].pricing_info = PyList(st.pricing_info)
    /\ d.value[2].news_headlines = st.news_headlines

\* C13: whenever writer_node wrote the sidecar, the sidecar re-parsed holds
\* company_name, home_url (as website), description, competitors,
\* pricing_info and news_headlines of the state, from the Writer's return to
\* the final state the run returns.
C13_SidecarEqualsFinalState ==
    files.json[1] = "file" =>
        /\ SidecarMatches(json_loads(files.json[2]), state)
        /\ (pc = "done" /\ result[1] = "state") =>
               SidecarMatches(json_loads(files.json[2]), result[2])

C13_Witness ==
    /\ FullRun
    /\ files.json[1] = "file"
    /\ result[2].home_url = PyStr(HomeUrl)
    /\ result[2].pricing_info = <<GoodPricing>>
    /\ result[2].news_headlines = GoodHeadlines
    /\ SidecarMatches(json_loads(files.json[2]), result[2])

---------------------------------------------------------------------------
(* C14: a Pricing probe without a usable text                              *)

\* Pricing has returned after probing the candidates.
PricingProbed == phase = "merge" /\ pc = "pricing" /\ pages # NoPages

\* Candidate i answered a text longer than 100 characters.
Usable(i) == pages[i].kind # "crash" /\ Meaningful(PageText(i))

MadeCall(op) == \E j \in 1..Len(calls) : calls[j].op = op

\* C14: when none of the three pricing candidates yields a text longer than
\* 100 characters, Pricing returns pricing_info unchanged and makes no LLM
\* call, also when the last text fetched is a non-empty text of 100
\* characters or fewer that is no error marker.
C14_NoUsableTextNoLlm ==
    (PricingProbed /\ \A i \in 1..NumPricingUrls : ~Usable(i)) =>
        /\ pending.pricing_info = state.pricing_info
        /\ ~MadeCall("llm")

---------------------------------------------------------------------------
(* C15: when News returns headlines                                        *)

NewsReturned == phase = "merge" /\ pc = "news"

\* Some candidate passed the status check (it was fetched) and answered a
\* text longer than 100 characters.
NewsCandidatePassed ==
    \E j \in 1..Len(calls) :
        calls[j].op = "fetch" /\ calls[j].res = "ok" /\ Meaningful(calls[j].text)

\* C15: News returns a non-empty news_headlines only when some candidate
\* passed both the status check and the threshold of more than 100
\* characters; when retrieval, the LLM call or the parse fails it returns [].
C15_HeadlinesOnlyFromPassedCandidate ==
    NewsReturned =>
        /\ pending.news_headlines # PyList(<<>>) => NewsCandidatePassed
        /\ StageFailed => pending.news_headlines = PyList(<<>>)

---------------------------------------------------------------------------
(* C16: the order of the News probe                                        *)

IsStatusCheck(c) == c.op = "status"

\* The status checks News made, in the order it made them
StatusChecks == SelectSeq(calls, IsStatusCheck)

\* C16: in the News probe a candidate is fetched only right after its own
\* status check answered 200; the candidates are checked in the order blog,
\* news, press, updates; once a candidate passed the status check and
\* answered a text longer than 100 characters, no later candidate is checked
\* or fetched.
C16_StatusGatesFetchInOrder ==
    NewsReturned =>
        /\ \A j \in 1..Len(calls) :
             calls[j].op = "fetch" =>
                 /\ j > 1
                 /\ calls[j - 1].op = "status"
                 /\ calls[j - 1].cand = calls[j].cand
                 /\ calls[j - 1].res = "200"
        /\ Len(StatusChecks) <= NumNewsUrls
        /\ \A k \in 1..Len(StatusChecks) : StatusChecks[k].cand = k
        /\ news_urls(HomeUrl) = << "https://acme.test/blog", "https://acme.test/news",
                                   "https://acme.test/press", "https://acme.test/updates" >>
        /\ \A j \in 1..Len(calls) :
             (calls[j].op = "fetch" /\ calls[j].res = "ok" /\ Meaningful(calls[j].text)) =>
                 \A l \in 1..Len(calls) :
                     calls[l].op \in {"status", "fetch"} => calls[l].cand <= calls[j].cand

C16_Witness ==
    /\ NewsReturned
    /\ Len(StatusChecks) = 2
    /\ StatusChecks[1].res = "404"
    /\ StatusChecks[2].res = "200"
    /\ \E j \in 1..Len(calls) :
         calls[j].op = "fetch" /\ calls[j].cand = 2 /\ Meaningful(calls[j].text)

---------------------------------------------------------------------------
(* C17: what Pricing adds to pricing_info                                  *)

CallOk(op) == \E j \in 1..Len(calls) : calls[j].op = op /\ calls[j].res = "ok"

\* C17: one execution of Pricing returns the pricing_info of its input, or
\* that list with exactly one record appended, and the latter only after a
\* fetch, the retrieval, the LLM call and the parse succeeded; no other stage
\* returns a pricing_info, and pricing_info has 0 or 1 elements in every
\* state of a run from the initial state.
C17_AtMostOneRecord ==
    /\ Len(state.pricing_info) <= 1
    /\ (pc = "done" /\ result[1] = "state") => Len(result[2].pricing_info) <= 1
    /\ (phase = "merge" /\ pc # "pricing") => "pricing_info" \notin DOMAIN pending
    /\ (phase = "merge" /\ pc = "pricing") =>
          \/ pending.pricing_info = state.pricing_info
          \/ /\ Len(pending.pricing_info) = Len(state.pricing_info) + 1
             /\ SubSeq(pending.pricing_info, 1, Len(state.pricing_info)) = state.pricing_info
             /\ CallOk("fetch") /\ CallOk("retrieve") /\ CallOk("llm") /\ CallOk("json")

C17_Witness ==
    /\ phase = "merge" /\ pc = "pricing"
    /\ state.pricing_info = <<>>
    /\ pending.pricing_info = <<GoodPricing>>
    /\ CallOk("json")

---------------------------------------------------------------------------
(* C18: Research on failure and on success                                 *)

ResearchReturned == phase = "merge" /\ pc = "detective"

\* The web search raised, the LLM call raised, or json.loads raised.
ResearchFailed ==
    \E j \in 1..Len(calls) :
        calls[j].op \in {"search", "llm", "json"} /\ calls[j].res = "raise"

\* C18: Research never raises; it returns loop_count of its input plus 1,
\* on failure and on success, and when the search raised, the LLM call
\* raised or the answer did not parse it returns exactly home_url =
\* "Not found", description = "Not available" and competitors = [].
C18_ResearchDefaultsOnFailure ==
    /\ (Len(executed) >= 1 /\ executed[Len(executed)] = "detective") => exc = ""
    /\ ResearchReturned =>
          /\ DOMAIN pending = {"home_url", "description", "competitors", "loop_count"}
          /\ pending.loop_count = state.loop_count + 1
          /\ ResearchFailed =>
                /\ pending.home_url = PyStr("Not found")
                /\ pending.description = PyStr("Not available")
                /\ pending.competitors = PyList(<<>>)

C18_Witness ==
    /\ ResearchReturned
    /\ state.loop_count = 1
    /\ \E j \in 1..Len(calls) : calls[j].op = "json" /\ calls[j].res = "raise"
    /\ pending.loop_count = 2
    /\ pending.home_url = PyStr("Not found")

---------------------------------------------------------------------------
(* C19: the fields each stage writes                                       *)

\* The write-sets without loop_count
StatedWriteSet(n) ==
    CASE n = "detective" -> {"home_url", "description", "competitors"}
      [] n = "pricing"   -> {"pricing_info"}
      [] n = "news"      -> {"news_headlines"}
      [] n = "editor"    -> {"final_report"}

\* The fields whose value the update of the stage at pc changes
ChangedFields == {k \in Keys : merge_update(state, pending)[k] # state[k]}

\* C19 (as stated): Research changes only home_url, description and
\* competitors, Pricing only pricing_info, News only news_headlines, Writer
\* only final_report; no field is written by two stages.
C19_WriteSetsDisjoint ==
    phase = "merge" => ChangedFields \subseteq StatedWriteSet(pc)

\* C19 (amended): the update of Research holds exactly home_url, description,
\* competitors and loop_count, that of Pricing pricing_info, that of News
\* news_headlines, that of Writer final_report and loop_count; a stage
\* changes no field outside its update, company_name and messages are never
\* changed, and loop_count, which Research and Writer each raise by 1, is
\* the only field two stages write.
C19_WriteSetsShareLoopCount ==
    /\ phase = "merge" =>
          /\ DOMAIN pending = StatedWriteSet(pc) \cup
                                (IF pc \in {"detective", "editor"} THEN {"loop_count"} ELSE {})
          /\ ChangedFields \subseteq DOMAIN pending
          /\ ChangedFields \cap {"company_name", "messages"} = {}
          /\ "loop_count" \in DOMAIN pending => pending.loop_count = state.loop_count + 1
    /\ \A m, n \in {"detective", "pricing", "news", "editor"} :
          m # n => StatedWriteSet(m) \cap StatedWriteSet(n) = {}

C19_Witness ==
    /\ phase = "merge" /\ pc = "editor"
    /\ state.pricing_info = <<GoodPricing>>
    /\ state.loop_count = 1
    /\ ChangedFields = {"final_report", "loop_count"}

---------------------------------------------------------------------------
(* C20: the Writer when one of its steps fails                             *)

WriterReturned == phase = "merge" /\ pc = "editor"

\* The LLM call, the write of the markdown file or the write of the sidecar raised.
WriterFailed ==
    \E j \in 1..Len(calls) :
        calls[j].op \in {"llm", "write_md", "write_json"} /\ calls[j].res = "raise"

\* C20: when the Writer's LLM call, the write of the markdown file or the
\* write of the sidecar fails, the stage does not raise; it returns
\* final_report set to a text that begins with the banner
\* "# Error Generating Battle Card", and loop_count of its input plus 1, as
\* on the success path.
C20_WriterFailureGivesBanner ==
    /\ (Len(executed) >= 1 /\ executed[Len(executed)] = "editor" /\ WriterFailed) => exc = ""
    /\ WriterReturned =>
          /\ DOMAIN pending = {"final_report", "loop_count"}
          /\ pending.loop_count = state.loop_count + 1
          /\ WriterFailed => IsBanner(pending.final_report)

C20_Witness ==
    /\ WriterReturned
    /\ \E j \in 1..Len(calls) : calls[j].op = "write_json" /\ calls[j].res = "raise"
    /\ files.md[1] = "file"
    /\ state.loop_count = 1
    /\ pending.loop_count = 2
    /\ IsBanner(pending.final_report)

---------------------------------------------------------------------------
(* C21: the Writer's files against the report it returns                   *)

\* C21, for a markdown file that was written in full with a non-empty
\* report: after the Writer returned, the sidecar was written too and the
\* markdown file holds the final_report the stage returned; the markdown
\* report never exists next to a final_report that is the error banner.
C21_FilesMatchReport ==
    (WriterReturned /\ files.md[1] = "file" /\ files.md[2] # <<>>) =>
        /\ files.json[1] = "file"
        /\ files.md[2] = pending.final_report
        /\ ~IsBanner(pending.final_report)

---------------------------------------------------------------------------
(* C22: no LLM call on an empty text or an error marker                    *)

IsFetchedText(c) == c.op = "fetch" /\ c.res = "ok"

\* The text the probe left in the variable text: that of the last fetch that
\* returned, None when no fetch returned.
SelectedText ==
    LET fetched == SelectSeq(calls, IsFetchedText)
    IN  IF fetched = <<>> THEN NoneText ELSE fetched[Len(fetched)].text

\* Pricing or News has returned after its probe ran.
Probed == phase = "merge" /\ pc \in {"pricing", "news"} /\ calls # <<>>

\* The stage returned what it returns when it extracted nothing.
ReturnedNothingNew ==
    IF pc = "pricing" THEN pending.pricing_info = state.pricing_info
    ELSE pending.news_headlines = PyList(<<>>)

\* The calls to retriever_text the stage made
RetrieveResults ==
    {calls[j].res : j \in {i \in 1..Len(calls) : calls[i].op = "retrieve"}}

=============================================================================
